---- MODULE Spec2Model ----
(***************************************************************************)
(* A model of git-plumbing (src/src/main.rs): the object codec             *)
(* (BlobObject / TreeObject / CommitObject pack, read_git_object), the     *)
(* object store (write_object_file and the readers in main) and the tree   *)
(* builder (write_tree).                                                   *)
(*                                                                         *)
(* Bytes are naturals 0..255 and byte strings are sequences of them.       *)
(***************************************************************************)
EXTENDS Integers, Sequences, FiniteSets, TLC

\* ------------------------------------------------------------ bytes ------

NUL == 0
SP == 32
PLUS == 43
SLASH == 47
LF == 10

\* "blob", "tree", "commit", "comit" (the literal the type dispatch tests for)
B_blob == <<98, 108, 111, 98>>
B_tree == <<116, 114, 101, 101>>
B_commit == <<99, 111, 109, 109, 105, 116>>
B_comit == <<99, 111, 109, 105, 116>>
B_parent == <<112, 97, 114, 101, 110, 116>>
B_author == <<97, 117, 116, 104, 111, 114>>
B_committer == <<99, 111, 109, 109, 105, 116, 116, 101, 114>>
\* "A Koala", "bogus-mail@bogus-exchange.com", "+0001"
B_koala == <<65, 32, 75, 111, 97, 108, 97>>
B_mail == <<98, 111, 103, 117, 115, 45, 109, 97, 105, 108, 64, 98, 111, 103, 117,
            115, 45, 101, 120, 99, 104, 97, 110, 103, 101, 46, 99, 111, 109>>
B_tz == <<43, 48, 48, 48, 49>>
\* ".git"
B_dotgit == <<46, 103, 105, 116>>

Min(a, b) == IF a < b THEN a ELSE b

RECURSIVE Concat(_)
Concat(ss) == IF ss = <<>> THEN <<>> ELSE Head(ss) \o Concat(Tail(ss))

starts_with(s, p) == Len(s) >= Len(p) /\ SubSeq(s, 1, Len(p)) = p

\* Lexicographic byte-wise order of two byte strings (String::cmp / <[u8]>::cmp):
\* -1, 0 or 1.
RECURSIVE StrCmp(_, _)
StrCmp(a, b) ==
    IF a = <<>> /\ b = <<>> THEN 0
    ELSE IF a = <<>> THEN -1
    ELSE IF b = <<>> THEN 1
    ELSE IF Head(a) < Head(b) THEN -1
    ELSE IF Head(a) > Head(b) THEN 1
    ELSE StrCmp(Tail(a), Tail(b))

\* usize::to_string / u32::to_string: decimal digits, no sign, no leading zero.
RECURSIVE to_string(_)
to_string(n) == IF n < 10 THEN <<48 + n>> ELSE to_string(n \div 10) \o <<48 + (n % 10)>>

IsDigit(b) == b >= 48 /\ b <= 57

\* std::str::from_utf8 succeeds.  The byte strings of the model hold ASCII
\* bytes (< 128) and the byte 255, which no UTF-8 sequence contains.
from_utf8_ok(s) == \A i \in 1..Len(s) : s[i] < 128

RECURSIVE DigitsValue(_)
DigitsValue(s) == IF s = <<>> THEN 0 ELSE DigitsValue(SubSeq(s, 1, Len(s) - 1)) * 10 + (s[Len(s)] - 48)

\* str::parse::<usize>() / ::<u32>(): an optional '+', then one or more decimal
\* digits (leading zeros allowed); -1 stands for Err.  Inputs of the model stay
\* below MaxDigits digits, far from the overflow of either width.
MaxDigits == 8
parse_uint(s) ==
    LET body == IF s # <<>> /\ Head(s) = PLUS THEN Tail(s) ELSE s
    IN IF body = <<>> \/ Len(body) > MaxDigits \/ \E i \in 1..Len(body) : ~IsDigit(body[i])
       THEN -1
       ELSE DigitsValue(body)

\* BufRead::read_until(delim): the bytes up to and including the first delim,
\* or everything that is left when there is none.
FirstIndex(s, d) ==
    IF \E i \in 1..Len(s) : s[i] = d
    THEN CHOOSE i \in 1..Len(s) : s[i] = d /\ \A j \in 1..(i - 1) : s[j] # d
    ELSE 0
read_until(d, s) ==
    LET i == FirstIndex(s, d)
    IN IF i = 0 THEN [buf |-> s, rest |-> <<>>]
       ELSE [buf |-> SubSeq(s, 1, i), rest |-> SubSeq(s, i + 1, Len(s))]

\* buf.strip_suffix(&[d]): Some(prefix) exactly when buf ends with d.
has_suffix(buf, d) == Len(buf) > 0 /\ buf[Len(buf)] = d
strip_suffix(buf) == SubSeq(buf, 1, Len(buf) - 1)

\* ------------------------------------------------------------ hex --------

HexDigit(n) == IF n < 10 THEN 48 + n ELSE 87 + n
HexValue(c) == IF c >= 48 /\ c <= 57 THEN c - 48 ELSE c - 87

\* hex::encode: two lowercase hex digits per byte.
hex_encode(bs) ==
    [i \in 1..(2 * Len(bs)) |->
        IF i % 2 = 1 THEN HexDigit(bs[(i + 1) \div 2] \div 16) ELSE HexDigit(bs[i \div 2] % 16)]

\* hex::decode on a string of hex digits of even length.
hex_decode(hs) ==
    [i \in 1..(Len(hs) \div 2) |-> HexValue(hs[2 * i - 1]) * 16 + HexValue(hs[2 * i])]

\* ------------------------------------------------------------ pack -------

\* The mode literals of write_tree and of Ord for TreeEntry.  Rust has no
\* leading-zero octal: 040000 is the decimal number 40000.
MODE_DIR == 40000
MODE_SYMLINK == 120000
MODE_EXEC == 100755
MODE_FILE == 100644

\* BlobObject::pack
BlobObject_pack(data) == B_blob \o <<SP>> \o to_string(Len(data)) \o <<NUL>> \o data

\* TreeEntry::pack; an entry is [mode, name, sha] with sha the 40 hex digits.
TreeEntry_pack(e) ==
    to_string(e.mode) \o <<SP>> \o e.name \o <<NUL>> \o hex_decode(e.sha)

\* A comparison key that leaves out the directory's trailing "/".
CmpKey_name_only(e) == e.name

\* The comparison key of Ord for TreeEntry.
CmpKey(e) == IF e.mode = MODE_DIR THEN e.name \o <<SLASH>> ELSE e.name

\* impl Ord for TreeEntry: cmp
TreeEntry_cmp(a, b) == StrCmp(CmpKey(a), CmpKey(b))

\* Vec::sort with TreeEntry_cmp: a stable sort (equal elements keep their order).
RECURSIVE InsertSorted(_, _)
InsertSorted(e, sorted) ==
    IF sorted = <<>> THEN <<e>>
    ELSE IF TreeEntry_cmp(e, Head(sorted)) < 0 THEN <<e>> \o sorted
    ELSE <<Head(sorted)>> \o InsertSorted(e, Tail(sorted))

RECURSIVE sort(_)
sort(es) ==
    IF es = <<>> THEN <<>>
    ELSE InsertSorted(es[Len(es)], sort(SubSeq(es, 1, Len(es) - 1)))

\* TreeObject::pack
TreeObject_pack(entries) ==
    LET sorted == sort(entries)
        packed == Concat([i \in 1..Len(sorted) |-> TreeEntry_pack(sorted[i])])
    IN B_tree \o <<SP>> \o to_string(Len(packed)) \o <<NUL>> \o packed

\* CommitObject::pack; the identity fields are the constants main passes, secs
\* is duration_since(UNIX_EPOCH).as_secs() of both dates.
CommitObject_pack(c) ==
    LET tree_hash == B_tree \o <<SP>> \o c.tree_hash \o <<LF>>
        parents == Concat([i \in 1..Len(c.parents) |->
                              B_parent \o <<SP>> \o c.parents[i] \o <<LF>>])
        author == B_author \o <<SP>> \o B_koala \o <<SP>> \o B_mail \o <<SP>>
                  \o to_string(c.secs) \o <<SP>> \o B_tz \o <<LF>>
        committer == B_committer \o <<SP>> \o B_koala \o <<SP>> \o B_mail \o <<SP>>
                     \o to_string(c.secs) \o <<SP>> \o B_tz \o <<LF>>
        message == <<LF>> \o c.commit_message \o <<LF>>
        content == tree_hash \o parents \o author \o committer \o message
    IN B_commit \o <<SP>> \o to_string(Len(content)) \o <<NUL>> \o content

\* ------------------------------------------------------------ parse ------

ShaLen == 20

NoEntry == [mode |-> 0, name |-> <<>>, sha |-> <<>>]

\* A parse outcome: status is "ok", "err" (a returned Err) or "panic" (an
\* unwrap on None, or an arithmetic overflow in a build that checks for it).
Outcome(status, kind, data, entries, err) ==
    [status |-> status, kind |-> kind, data |-> data, entries |-> entries, err |-> err]

\* read_tree_entry: [status, err, entry, n, rest]
read_tree_entry(s) ==
    LET r1 == read_until(SP, s)
        mode == parse_uint(strip_suffix(r1.buf))
        r2 == read_until(NUL, r1.rest)
        name == strip_suffix(r2.buf)
        fail(st, e) == [status |-> st, err |-> e, entry |-> NoEntry, n |-> 0, rest |-> <<>>]
    IN IF ~has_suffix(r1.buf, SP) THEN fail("panic", "unwrap on None")
       ELSE IF ~from_utf8_ok(strip_suffix(r1.buf)) THEN fail("err", "not utf8 ?")
       ELSE IF mode = -1 THEN fail("err", "not a number ?")
       ELSE IF ~has_suffix(r2.buf, NUL) THEN fail("panic", "unwrap on None")
       ELSE IF Len(r2.rest) < ShaLen THEN fail("err", "failed to fill whole buffer")
       ELSE IF ~from_utf8_ok(name) THEN fail("err", "invalid utf-8")
       ELSE [status |-> "ok", err |-> "",
             entry |-> [mode |-> mode, name |-> name,
                        sha |-> hex_encode(SubSeq(r2.rest, 1, ShaLen))],
             n |-> Len(r1.buf) + Len(r2.buf) + ShaLen,
             rest |-> SubSeq(r2.rest, ShaLen + 1, Len(r2.rest))]

\* The while loop of the Tree arm.  `remaining -= n` on a usize: when n exceeds
\* remaining, a build with overflow checks panics and a build without them
\* wraps to 2^64 - (n - remaining), a count no input of the model exhausts:
\* wrapped = TRUE stands for it.
RECURSIVE tree_loop(_, _, _, _, _)
tree_loop(s, remaining, wrapped, entries, checks) ==
    IF ~wrapped /\ remaining = 0
    THEN Outcome("ok", "tree", <<>>, entries, "")
    ELSE LET r == read_tree_entry(s)
         IN IF r.status # "ok" THEN Outcome(r.status, "", <<>>, <<>>, r.err)
            ELSE IF wrapped THEN tree_loop(r.rest, 0, TRUE, Append(entries, r.entry), checks)
            ELSE IF r.n > remaining
            THEN IF checks THEN Outcome("panic", "", <<>>, <<>>, "attempt to subtract with overflow")
                 ELSE tree_loop(r.rest, 0, TRUE, Append(entries, r.entry), checks)
            ELSE tree_loop(r.rest, remaining - r.n, FALSE, Append(entries, r.entry), checks)

\* A Blob arm that reads `size` bytes and ignores what follows them.
blob_arm_take(rest, size) ==
    IF Len(rest) >= size
    THEN Outcome("ok", "blob", SubSeq(rest, 1, size), <<>>, "")
    ELSE Outcome("err", "", <<>>, <<>>, "failed to fill whole buffer")

\* The Blob arm of read_git_object: read_to_end, then ensure!(n == size).
blob_arm(rest, size) ==
    IF Len(rest) = size
    THEN Outcome("ok", "blob", rest, <<>>, "")
    ELSE Outcome("err", "", <<>>, <<>>, "Expected size bytes, got n bytes")

\* The type dispatch of read_git_object on the token before the first space.
object_type(tok) ==
    IF starts_with(tok, B_blob) THEN "blob"
    ELSE IF starts_with(tok, B_tree) THEN "tree"
    ELSE IF starts_with(tok, B_comit) THEN "commit"
    ELSE "unsupported"

\* read_git_object on the inflated bytes s; checks: the build has overflow checks.
read_git_object(s, checks) ==
    LET r1 == read_until(SP, s)
        ty == object_type(strip_suffix(r1.buf))
        r2 == read_until(NUL, r1.rest)
        size == parse_uint(strip_suffix(r2.buf))
    IN IF ~has_suffix(r1.buf, SP) THEN Outcome("panic", "", <<>>, <<>>, "unwrap on None")
       ELSE IF ty = "unsupported"
       THEN IF from_utf8_ok(r1.buf)
            THEN Outcome("err", "", <<>>, <<>>, "Object type is not supported")
            ELSE Outcome("err", "", <<>>, <<>>, "not utf8 ?")
       ELSE IF ~has_suffix(r2.buf, NUL) THEN Outcome("panic", "", <<>>, <<>>, "unwrap on None")
       ELSE IF ~from_utf8_ok(strip_suffix(r2.buf)) THEN Outcome("err", "", <<>>, <<>>, "not utf8 ?")
       ELSE IF size = -1 THEN Outcome("err", "", <<>>, <<>>, "not a number ?")
       ELSE IF ty = "tree" THEN tree_loop(r2.rest, size, FALSE, <<>>, checks)
       ELSE IF ty = "blob" THEN blob_arm(r2.rest, size)
       ELSE Outcome("err", "", <<>>, <<>>, "Unimplemented read: commit")

\* ------------------------------------------------------------ store ------

\* Sha1::finalize, the 20-byte digest.  SHA-1 itself is outside the repository:
\* the digest here is a deterministic fingerprint of the bytes.  Its first byte
\* (the two hex digits that name the object's subdirectory) ranges over
\* PrefixSpace values instead of 256, so that distinct objects share a
\* subdirectory as often in a handful of objects as they do in a real store.
PrefixSpace == 13
HashModulus == 65521

\* The sum of the numbers f[lo..hi], by halves.
RECURSIVE Sum(_, _, _)
Sum(f, lo, hi) ==
    IF lo > hi THEN 0
    ELSE IF lo = hi THEN f[lo]
    ELSE Sum(f, lo, (lo + hi) \div 2) + Sum(f, (lo + hi) \div 2 + 1, hi)

Weight(i) == ((i * i * 31 + i * 17) % 251) + 1
Fingerprint(bs) ==
    (7 + Sum([i \in 1..Len(bs) |-> ((bs[i] + 1) * Weight(i)) % HashModulus], 1, Len(bs)))
    % HashModulus

Sha1(bs) ==
    LET h == Fingerprint(bs)
    IN [k \in 1..ShaLen |->
          IF k = 1 THEN h % PrefixSpace
          ELSE IF k = 2 THEN h \div 256
          ELSE IF k = 3 THEN h % 256
          ELSE (h + k) % 256]

\* encoder.write(&packed)?: Write::write may accept only a prefix of the buffer
\* and the code drops the count it returns.  One call to ZlibEncoder::write
\* runs the compressor once into the encoder's output buffer (32 KiB in
\* flate2) and accepts no more input than fills it.  The deflate coding is
\* left out of the model, so every byte counts as incompressible, and the
\* capacity is scaled down to EncoderBufCap bytes.  What was accepted is what
\* the encoder finishes and flushes when it is dropped.
EncoderBufCap == 72
encoder_write(packed) == SubSeq(packed, 1, Min(Len(packed), EncoderBufCap))

\* The zlib container (RFC 1950): the two-byte header of Compression::best(),
\* the data, the Adler-32 of the data (modulus 65521).  The deflate coding of
\* the data is lossless and left out.
ZHeader == <<120, 218>>
Adler32(bs) ==
    LET n == Len(bs)
        a == (1 + Sum(bs, 1, n)) % HashModulus
        b == (n + Sum([i \in 1..n |-> (n - i + 1) * bs[i]], 1, n)) % HashModulus
    IN <<b \div 256, b % 256, a \div 256, a % 256>>
ZlibEncoder(bs) == ZHeader \o bs \o Adler32(bs)

\* ZlibDecoder: [ok, data]; a stream with a bad header or checksum is an error.
ZlibDecoder(f) ==
    LET body == SubSeq(f, 3, Len(f) - 4)
    IN IF Len(f) >= 6 /\ SubSeq(f, 1, 2) = ZHeader /\ SubSeq(f, Len(f) - 3, Len(f)) = Adler32(body)
       THEN [ok |-> TRUE, data |-> body]
       ELSE [ok |-> FALSE, data |-> <<>>]

\* The store: st = [init, dirs, files].  init: .git/objects exists; dirs: the
\* two-hex-digit subdirectories of .git/objects; files: object hash -> the
\* bytes of .git/objects/<hash[0..2]>/<hash[2..]>.
dirname(hash) == SubSeq(hash, 1, 2)

\* Variants of write_object_file, each differing from it by one plausible
\* change: create_dir_all in place of create_dir; an existence check that
\* returns the hash of an object already stored; removal of the prefix
\* directory when create_dir fails.
write_object_file_dir_all(packed, st) ==
    LET hash == hex_encode(Sha1(packed))
    IN IF ~st.init
       THEN [ok |-> FALSE, hash |-> hash, st |-> st]
       ELSE [ok |-> TRUE, hash |-> hash,
             st |-> [st EXCEPT !.dirs = @ \cup {dirname(hash)},
                               !.files = (hash :> ZlibEncoder(encoder_write(packed))) @@ @]]

write_object_file_checked(packed, st) ==
    LET hash == hex_encode(Sha1(packed))
    IN IF hash \in DOMAIN st.files
       THEN [ok |-> TRUE, hash |-> hash, st |-> st]
       ELSE IF ~st.init \/ dirname(hash) \in st.dirs
       THEN [ok |-> FALSE, hash |-> hash, st |-> st]
       ELSE [ok |-> TRUE, hash |-> hash,
             st |-> [st EXCEPT !.dirs = @ \cup {dirname(hash)},
                               !.files = (hash :> ZlibEncoder(encoder_write(packed))) @@ @]]

write_object_file_cleanup(packed, st) ==
    LET hash == hex_encode(Sha1(packed))
        kept == {h \in DOMAIN st.files : dirname(h) # dirname(hash)}
    IN IF ~st.init
       THEN [ok |-> FALSE, hash |-> hash, st |-> st]
       ELSE IF dirname(hash) \in st.dirs
       THEN [ok |-> FALSE, hash |-> hash,
             st |-> [st EXCEPT !.dirs = @ \ {dirname(hash)},
                               !.files = [h \in kept |-> st.files[h]]]]
       ELSE [ok |-> TRUE, hash |-> hash,
             st |-> [st EXCEPT !.dirs = @ \cup {dirname(hash)},
                               !.files = (hash :> ZlibEncoder(encoder_write(packed))) @@ @]]

\* write_object_file: [ok, hash, st].  fs::create_dir fails when .git/objects
\* is missing and when the subdirectory exists already.
write_object_file(packed, st) ==
    LET hash == hex_encode(Sha1(packed))
    IN IF ~st.init \/ dirname(hash) \in st.dirs
       THEN [ok |-> FALSE, hash |-> hash, st |-> st]
       ELSE [ok |-> TRUE, hash |-> hash,
             st |-> [st EXCEPT !.dirs = @ \cup {dirname(hash)},
                               !.files = (hash :> ZlibEncoder(encoder_write(packed))) @@ @]]

\* The read path of cat-file and ls-tree: slice the hash, open the file, wrap
\* it in a ZlibDecoder and run read_git_object.
read_object(object_hash, st, checks) ==
    IF Len(object_hash) < 2
    THEN Outcome("panic", "", <<>>, <<>>, "byte index out of range")
    ELSE IF object_hash \notin DOMAIN st.files
    THEN Outcome("err", "", <<>>, <<>>, "No such file or directory")
    ELSE LET z == ZlibDecoder(st.files[object_hash])
         IN IF ~z.ok THEN Outcome("err", "", <<>>, <<>>, "corrupt deflate stream")
            ELSE read_git_object(z.data, checks)

\* ------------------------------------------------------------ work tree --

\* The working directory is a set of entries [path, kind, data, exec]: path is
\* the sequence of file names from the root, kind is what DirEntry::file_type
\* reports ("file", "dir", "symlink", or "other" for a device, socket or fifo),
\* data the content of a regular file, exec whether mode & 0o111 is non-zero.
N_a == <<97>>
N_atxt == <<97, 46, 116, 120, 116>>
N_b == <<98>>
N_d == <<100>>
N_ytxt == <<121, 46, 116, 120, 116>>
P_x == <<120>>
P_y == <<121>>

Node(path, kind, data, exec) == [path |-> path, kind |-> kind, data |-> data, exec |-> exec]

Parent(path) == SubSeq(path, 1, Len(path) - 1)
FileName(path) == path[Len(path)]
IsPrefix(p, q) == Len(p) <= Len(q) /\ SubSeq(q, 1, Len(p)) = p

\* fs::read_dir(path): the direct children.  The root also holds the
\* repository's own .git directory once `init` has run.
read_dir(wt, path, init) ==
    {e \in wt : Parent(e.path) = path /\ e.path # <<>>}
    \cup (IF path = <<>> /\ init THEN {Node(<<B_dotgit>>, "dir", <<>>, FALSE)} ELSE {})

\* The order in which read_dir yields the entries is the file system's: ord
\* gives it, ord.root for the root and ord.sub for every other directory, each
\* a sequence of names.
Listing(children, names) ==
    LET present == SelectSeq(names, LAMBDA n : \E e \in children : FileName(e.path) = n)
    IN [i \in 1..Len(present) |-> CHOOSE e \in children : FileName(e.path) = present[i]]

\* The mode computed by write_tree for an entry it did not bail out on.
entry_mode(e) ==
    IF e.kind = "dir" THEN MODE_DIR
    ELSE IF e.kind = "symlink" THEN MODE_SYMLINK
    ELSE IF e.exec THEN MODE_EXEC
    ELSE MODE_FILE

\* A call of write_object_file together with the record of it kept for the
\* properties: acc = [st, writes, trees].  shared: an object stored before the
\* call has the same two leading hex digits; same: the call left the store as
\* it was.
logged_write(packed, kind, path, acc) ==
    LET w == write_object_file(packed, acc.st)
        rec == [hash |-> w.hash, kind |-> kind, path |-> path, ok |-> w.ok,
                present |-> w.hash \in DOMAIN acc.st.files,
                shared |-> \E h \in DOMAIN acc.st.files : dirname(h) = dirname(w.hash),
                same |-> w.st = acc.st]
    IN [ok |-> w.ok, hash |-> w.hash,
        acc |-> [acc EXCEPT !.st = w.st, !.writes = Append(@, rec)]]

\* The outcome of hash_object, write_tree and of the loop of write_tree.
Step(ok, status, hash, entries, err, failedAt, failedDir, acc) ==
    [ok |-> ok, status |-> status, hash |-> hash, entries |-> entries, err |-> err,
     failedAt |-> failedAt, failedDir |-> failedDir, acc |-> acc]

\* hash_object(filename).  File::open fails on a missing path; on a directory
\* it succeeds and read_to_end(..).unwrap() panics.
hash_object(wt, path, acc) ==
    IF ~\E e \in wt : e.path = path
    THEN Step(FALSE, "err", <<>>, <<>>, "No such file or directory", path, Parent(path), acc)
    ELSE LET e == CHOOSE e \in wt : e.path = path
         IN IF e.kind = "dir"
            THEN Step(FALSE, "panic", <<>>, <<>>, "unwrap on Err", path, Parent(path), acc)
            ELSE LET w == logged_write(BlobObject_pack(e.data), "blob", path, acc)
                 IN IF w.ok
                    THEN Step(TRUE, "ok", w.hash, <<>>, "", <<>>, <<>>, w.acc)
                    ELSE Step(FALSE, "err", <<>>, <<>>, "File exists", path, Parent(path), w.acc)

\* write_tree(path): phase "dir" is the call itself (read_dir, the loop, then
\* pack and write_object_file), phase "loop" the for loop over what is left of
\* the listing.
RECURSIVE write_tree_at(_, _, _, _, _, _, _)
write_tree_at(phase, wt, path, listing, entries, ord, acc) ==
    IF phase = "dir"
    THEN LET names == IF path = <<>> THEN ord.root ELSE ord.sub
             l == write_tree_at("loop", wt, path,
                                Listing(read_dir(wt, path, acc.st.init), names), <<>>, ord, acc)
             w == logged_write(TreeObject_pack(l.entries), "tree", path, l.acc)
         IN IF ~l.ok THEN l
            ELSE IF ~w.ok
            THEN Step(FALSE, "err", <<>>, <<>>, "File exists", path, path, w.acc)
            ELSE Step(TRUE, "ok", w.hash, <<>>, "", <<>>, <<>>,
                      [w.acc EXCEPT !.trees = @ \cup {[path |-> path, hash |-> w.hash]}])
    ELSE IF listing = <<>> THEN Step(TRUE, "ok", <<>>, entries, "", <<>>, <<>>, acc)
    ELSE LET e == Head(listing)
             file_name == FileName(e.path)
             r == IF e.kind = "file" THEN hash_object(wt, e.path, acc)
                  ELSE write_tree_at("dir", wt, e.path, <<>>, <<>>, ord, acc)
         IN IF e.kind = "dir" /\ file_name = B_dotgit
            THEN write_tree_at("loop", wt, path, Tail(listing), entries, ord, acc)
            ELSE IF e.kind \notin {"file", "dir"}
            THEN Step(FALSE, "err", <<>>, <<>>, "Neither file nor dir", e.path, path, acc)
            ELSE IF ~r.ok THEN r
            ELSE write_tree_at("loop", wt, path, Tail(listing),
                               Append(entries, [mode |-> entry_mode(e), name |-> file_name,
                                                sha |-> r.hash]),
                               ord, r.acc)

write_tree(wt, path, ord, acc) == write_tree_at("dir", wt, path, <<>>, <<>>, ord, acc)

\* ------------------------------------------------------------ inputs -----

MaxPayloadLen == 2
LongLen == 70
MaxEntries == 3
MaxSteps == 3

\* File contents: every string over {NUL, space, 'x'} of at most MaxPayloadLen
\* bytes, "y", and one of LongLen bytes.
Alphabet == {NUL, SP, 120}
SmallPayloads == UNION {[1..n -> Alphabet] : n \in 0..MaxPayloadLen}
LongPayload == [i \in 1..LongLen |-> 120]
Payloads == SmallPayloads \cup {P_y, LongPayload}

Perms(S) == {p \in [1..Cardinality(S) -> S] : \A i, j \in 1..Cardinality(S) : p[i] = p[j] => i = j}

\* What a subdirectory may hold (paths relative to it): nothing, y.txt, a
\* nested repository's .git directory beside y.txt, a regular file named .git.
SubDirs ==
    { {},
      {Node(<<N_ytxt>>, "file", P_x, FALSE)},
      {Node(<<B_dotgit>>, "dir", <<>>, FALSE), Node(<<B_dotgit, N_ytxt>>, "file", P_x, FALSE),
       Node(<<N_ytxt>>, "file", P_y, FALSE)},
      {Node(<<B_dotgit>>, "file", P_x, FALSE)} }

DirAt(name, sub) ==
    {Node(<<name>>, "dir", <<>>, FALSE)}
    \cup {Node(<<name>> \o e.path, e.kind, e.data, e.exec) : e \in sub}

\* The root holds any of "a" (a file or a directory), "a.txt" (a file) and "d"
\* (a directory, a symlink or a device); or a.txt alone, with any payload.
OptsA == {{}, {Node(<<N_a>>, "file", P_x, FALSE)}} \cup {DirAt(N_a, sub) : sub \in SubDirs}
OptsT == {{}, {Node(<<N_atxt>>, "file", P_x, FALSE)}, {Node(<<N_atxt>>, "file", P_y, TRUE)}}
OptsD == {{}, {Node(<<N_d>>, "symlink", <<>>, FALSE)}, {Node(<<N_d>>, "other", <<>>, FALSE)},
          DirAt(N_d, {Node(<<N_ytxt>>, "file", P_y, FALSE)})}

WorkTrees ==
    {oa \cup ot \cup od : oa \in OptsA, ot \in OptsT, od \in OptsD}
    \cup {{Node(<<N_atxt>>, "file", p, FALSE)} : p \in Payloads}

\* The orders read_dir may yield: every order of the names the root holds and
\* every order of the names the other directories hold.  The root's own .git
\* is skipped wherever it comes, so it is listed first.
Orders(wt) ==
    {[root |-> <<B_dotgit>> \o rp, sub |-> sp] :
        rp \in Perms({FileName(e.path) : e \in {n \in wt : Len(n.path) = 1}}),
        sp \in Perms({FileName(e.path) : e \in {n \in wt : Len(n.path) > 1}})}

BogusHash == [i \in 1..(2 * ShaLen) |-> 48]
Clock == {1700000000, 1700000001}
B_msg == <<109>>

\* ------------------------------------------------------------ state ------

VARIABLES
    worktree,   \* the working directory (the program never changes it)
    store,      \* [init, dirs, files]: .git/objects
    last,       \* what the last command did and returned
    steps,      \* commands run so far
    treeRuns,   \* runs of write-tree in the initialised repository so far
    cpc,        \* the codec pipeline: "obj", "stream", "done" ("off" in Spec)
    cobj,       \* the codec's input
    cstream,    \* the bytes handed to read_git_object
    cres        \* its outcome

vars == <<worktree, store, last, steps, treeRuns, cpc, cobj, cstream, cres>>
codecVars == <<cpc, cobj, cstream, cres>>
storeVars == <<worktree, store, last, steps, treeRuns>>

Last(cmd, status, out, err, arg, r) ==
    [cmd |-> cmd, status |-> status, out |-> out, err |-> err, arg |-> arg,
     writes |-> r.acc.writes, trees |-> r.acc.trees,
     failedAt |-> r.failedAt, failedDir |-> r.failedDir]

Acc0 == [st |-> store, writes |-> <<>>, trees |-> {}]
NoStep == Step(FALSE, "err", <<>>, <<>>, "", <<>>, <<>>, Acc0)

NoCommit == [tree_hash |-> <<>>, parents |-> <<>>, commit_message |-> <<>>, secs |-> 0]
CObj(kind, data, entries, declared, token, drop, commit) ==
    [kind |-> kind, data |-> data, entries |-> entries, declared |-> declared,
     token |-> token, drop |-> drop, commit |-> commit]
NoOutcome == Outcome("", "", <<>>, <<>>, "")

CodecOff ==
    /\ cpc = "off"
    /\ cobj = CObj("", <<>>, <<>>, 0, <<>>, 0, NoCommit)
    /\ cstream = <<>>
    /\ cres = NoOutcome

Init ==
    /\ worktree \in WorkTrees
    /\ store = [init |-> FALSE, dirs |-> {}, files |-> <<>>]
    /\ last = [cmd |-> "", status |-> "", out |-> <<>>, err |-> "", arg |-> <<>>,
               writes |-> <<>>, trees |-> {}, failedAt |-> <<>>, failedDir |-> <<>>]
    /\ steps = 0
    /\ treeRuns = 0
    /\ CodecOff

Ran(l) ==
    /\ last' = l
    /\ steps' = steps + 1
    /\ UNCHANGED <<worktree, codecVars>>

\* Command::Init: create .git, .git/objects, .git/refs and HEAD; the first
\* create_dir fails when .git exists.
CmdInit ==
    /\ steps < MaxSteps
    /\ store' = [store EXCEPT !.init = TRUE]
    /\ Ran(Last("init", IF store.init THEN "err" ELSE "ok", <<>>,
                IF store.init THEN "File exists" ELSE "", <<>>, NoStep))
    /\ UNCHANGED treeRuns

\* Command::HashObject { write, filename }
CmdHashObject ==
    /\ steps < MaxSteps
    /\ \E write \in BOOLEAN, path \in {e.path : e \in {n \in worktree : n.kind \in {"file", "dir"}}}
                                      \cup {<<N_b>>} :
          IF ~write
          THEN /\ store' = store
               /\ Ran(Last("hash-object", "err", <<>>, "expected -w", <<>>, NoStep))
          ELSE \E r \in {hash_object(worktree, path, Acc0)} :
                  /\ store' = r.acc.st
                  /\ Ran(Last("hash-object", r.status, r.hash, r.err, path, r))
    /\ UNCHANGED treeRuns

\* Command::WriteTree
CmdWriteTree ==
    /\ steps < MaxSteps
    /\ \E r \in {write_tree(worktree, <<>>, ord, Acc0) : ord \in Orders(worktree)} :
             /\ store' = r.acc.st
             /\ Ran(Last("write-tree", r.status, r.hash, r.err, <<>>, r))
    /\ treeRuns' = IF store.init THEN treeRuns + 1 ELSE treeRuns

\* Command::CommitTree: the tree and parent hashes are whatever strings the
\* user passes; both dates are SystemTime::now().
commit_tree(tree_hash, parent_hash, commit_message, secs, acc) ==
    LET c == [tree_hash |-> tree_hash, parents |-> <<parent_hash>>,
              commit_message |-> commit_message, secs |-> secs]
        w == logged_write(CommitObject_pack(c), "commit", <<>>, acc)
    IN IF w.ok
       THEN Step(TRUE, "ok", w.hash, <<>>, "", <<>>, <<>>, w.acc)
       ELSE Step(FALSE, "err", <<>>, <<>>, "File exists", <<>>, <<>>, w.acc)

CmdCommitTree ==
    /\ steps < MaxSteps
    /\ \E r \in {commit_tree(BogusHash, BogusHash, B_msg, secs, Acc0) : secs \in Clock} :
          /\ store' = r.acc.st
          /\ Ran(Last("commit-tree", r.status, r.hash, r.err, BogusHash, r))
    /\ UNCHANGED treeRuns

\* The hashes a user may pass to cat-file and ls-tree.
HashArgs == DOMAIN store.files \cup {BogusHash, <<97>>}

\* Command::CatFile { pretty_print, object_hash }
CmdCatFile ==
    /\ steps < MaxSteps
    /\ \E pretty \in BOOLEAN, h \in HashArgs :
       \E o \in {read_object(h, store, checks) : checks \in BOOLEAN} :
             IF ~pretty
             THEN Ran(Last("cat-file", "err", <<>>, "expected pretty print (-p)", <<>>, NoStep))
             ELSE IF o.status # "ok"
             THEN Ran(Last("cat-file", o.status, <<>>, o.err, h, NoStep))
             ELSE IF o.kind # "blob"
             THEN Ran(Last("cat-file", "err", <<>>, "cat-file can only read blob objects", h, NoStep))
             ELSE IF ~from_utf8_ok(o.data)
             THEN Ran(Last("cat-file", "err", <<>>, "invalid utf-8", h, NoStep))
             ELSE Ran(Last("cat-file", "ok", o.data, "", h, NoStep))
    /\ UNCHANGED <<store, treeRuns>>

\* Command::LsTree { name_only, object_hash }: one name per line, in the order
\* the entries were parsed.
CmdLsTree ==
    /\ steps < MaxSteps
    /\ \E name_only \in BOOLEAN, h \in HashArgs :
       \E o \in {read_object(h, store, checks) : checks \in BOOLEAN} :
             IF ~name_only
             THEN Ran(Last("ls-tree", "err", <<>>, "expected --name-only", <<>>, NoStep))
             ELSE IF o.status # "ok"
             THEN Ran(Last("ls-tree", o.status, <<>>, o.err, h, NoStep))
             ELSE IF o.kind # "tree"
             THEN Ran(Last("ls-tree", "err", <<>>, "ls-tree can only read tree objects", h, NoStep))
             ELSE Ran(Last("ls-tree", "ok",
                           Concat([i \in 1..Len(o.entries) |-> o.entries[i].name \o <<LF>>]),
                           "", h, NoStep))
    /\ UNCHANGED <<store, treeRuns>>

Next ==
    \/ CmdInit
    \/ CmdHashObject
    \/ CmdWriteTree
    \/ CmdCommitTree
    \/ CmdCatFile
    \/ CmdLsTree

Spec == Init /\ [][Next]_vars

\* ------------------------------------------------------------ store properties

FileAt(path) == CHOOSE e \in worktree : e.path = path

\* What read_git_object makes of the stored object h, by either build.
ReadBack(h) == {read_object(h, store, checks) : checks \in BOOLEAN}

\* The children write_tree records for a directory: all but a directory
\* named .git.
Recorded(path) ==
    {e \in worktree : Parent(e.path) = path /\ ~(e.kind = "dir" /\ FileName(e.path) = B_dotgit)}
ChildNamed(path, name) == CHOOSE e \in Recorded(path) : FileName(e.path) = name

\* The canonical order as the specification words it: ascending byte-wise by
\* the name, a directory's name taken with a trailing "/".
CanonicalKey(name, isDir) == IF isDir THEN name \o <<SLASH>> ELSE name
Names(entries) == [i \in 1..Len(entries) |-> entries[i].name]
IsCanonicalListing(names, path) ==
    /\ Len(names) = Cardinality(Recorded(path))
    /\ {names[i] : i \in 1..Len(names)} = {FileName(e.path) : e \in Recorded(path)}
    /\ \A i, j \in 1..Len(names) :
          i < j => StrCmp(CanonicalKey(names[i], ChildNamed(path, names[i]).kind = "dir"),
                          CanonicalKey(names[j], ChildNamed(path, names[j]).kind = "dir")) < 0

\* The mode the specification gives each kind of entry.
SpecMode(e) ==
    IF e.kind = "dir" THEN 40000
    ELSE IF e.kind = "symlink" THEN 120000
    ELSE IF e.exec THEN 100755
    ELSE 100644

ExampleTree ==
    {Node(<<N_atxt>>, "file", P_x, FALSE)} \cup DirAt(N_d, {Node(<<N_ytxt>>, "file", P_y, FALSE)})

\* C1: a payload stored by a successful write_object_file of its packed blob
\* is read back, from the file at the returned hash, as a Blob with exactly
\* that payload.
C1_BlobRoundTrip ==
    (last.cmd = "hash-object" /\ last.status = "ok") =>
        \A o \in ReadBack(last.out) :
            o.status = "ok" /\ o.kind = "blob" /\ o.data = FileAt(last.arg).data

\* C3: after a successful write_tree, the object at the returned hash (and at
\* the hash of every tree written below it) parses as a Tree whose names, in
\* parsed order, are the directory's children other than a directory named
\* .git, in canonical order; for {a.txt, d/y.txt} the root lists a.txt, d.
C3_WriteTreeLsTree ==
    (last.cmd = "write-tree" /\ last.status = "ok") =>
        /\ \A t \in last.trees : \A o \in ReadBack(t.hash) :
              o.status = "ok" /\ o.kind = "tree" /\ IsCanonicalListing(Names(o.entries), t.path)
        /\ worktree = ExampleTree =>
              \A o \in ReadBack(last.out) : o.status = "ok" /\ Names(o.entries) = <<N_atxt, N_d>>

\* C4: write_tree records every entry with the mode of its kind (100755,
\* 100644, 40000, and 120000 for a symlink, which is a leaf and not
\* rejected), and aborts with the unsupported-kind error on other kinds only.
C4_ModeMapping ==
    last.cmd = "write-tree" =>
        /\ last.err = "Neither file nor dir" => FileAt(last.failedAt).kind = "other"
        /\ \A t \in last.trees : \A o \in ReadBack(t.hash) :
              (o.status = "ok" /\ o.kind = "tree") =>
                  \A i \in 1..Len(o.entries) :
                      o.entries[i].mode = SpecMode(ChildNamed(t.path, o.entries[i].name))

\* C6: a write_object_file whose hash shares its two leading hex characters
\* with an object stored before (the same object included) returns an error
\* and leaves the store as it was.
C6_ExistingPrefixFails ==
    \A i \in DOMAIN last.writes :
        last.writes[i].shared => ~last.writes[i].ok /\ last.writes[i].same

\* A write of a new object whose prefix directory an earlier write created.
C6_Witness ==
    \E i \in DOMAIN last.writes :
        last.writes[i].shared /\ ~last.writes[i].present /\ ~last.writes[i].ok

\* C9: a stored object file never changes and is never removed; a successful
\* write_object_file creates a file that did not exist; cat-file and ls-tree
\* leave the store unchanged.
C9_StoreImmutable ==
    [][/\ \A h \in DOMAIN store.files :
             h \in DOMAIN store'.files /\ store'.files[h] = store.files[h]
       /\ \A i \in DOMAIN last'.writes : last'.writes[i].ok => ~last'.writes[i].present
       /\ last'.cmd \in {"cat-file", "ls-tree"} => store' = store]_vars

\* A cat-file that printed a blob out of a store holding two objects.
C9_Witness ==
    /\ last.cmd = "cat-file"
    /\ last.status = "ok"
    /\ Cardinality(DOMAIN store.files) >= 2

\* Two regular files with the same content; the second form leaves out files
\* inside a directory named .git.
InsideDotGit(path) == \E i \in 1..(Len(path) - 1) : path[i] = B_dotgit
TwinFiles(S) == \E e, f \in S : e.kind = "file" /\ f.kind = "file" /\ e.path # f.path /\ e.data = f.data
Visited == {e \in worktree : ~InsideDotGit(e.path)}

\* What a failed write_tree leaves: no root hash, every object written
\* before the failure, no tree for the failing directory or its ancestors.
FailedCleanly ==
    /\ last.status = "err"
    /\ last.out = <<>>
    /\ \A i \in DOMAIN last.writes :
          /\ last.writes[i].ok => last.writes[i].hash \in DOMAIN store.files
          /\ (last.writes[i].ok /\ last.writes[i].kind = "tree") =>
                ~IsPrefix(last.writes[i].path, last.failedDir)
    /\ \A t \in last.trees : ~IsPrefix(t.path, last.failedDir)

\* C10 as stated: write_tree fails, without rollback, on any directory tree
\* holding two regular files with identical content, and on a second run.
C10_AsStated ==
    (last.cmd = "write-tree" /\ (TwinFiles(worktree) \/ treeRuns >= 2)) => FailedCleanly

\* C10, amended: the two files with identical content are files write_tree
\* visits, neither inside a directory named .git.
C10_NotRepeatable ==
    /\ (last.cmd = "write-tree" /\ (TwinFiles(Visited) \/ treeRuns >= 2)) => FailedCleanly
    /\ (last.cmd = "write-tree" /\ last.status # "ok") => FailedCleanly

\* A second run that fails on the first blob although the first run wrote
\* objects that are still stored.
C10_Witness ==
    /\ last.cmd = "write-tree"
    /\ treeRuns >= 2
    /\ last.status = "err"
    /\ last.writes # <<>>
    /\ DOMAIN store.files # {}

\* ------------------------------------------------------------ codec ------
\* The codec on its own: an object is packed and the bytes parsed back, or
\* bytes that no pack produced (a wrong size, a foreign type token, a file cut
\* short) are parsed.

ShaOf(name) == hex_encode(Sha1(name))
EntryNames == {N_a, N_atxt, N_b}
Entries == {[mode |-> m, name |-> n, sha |-> ShaOf(n)] : m \in {MODE_DIR, MODE_FILE}, n \in EntryNames}
EntrySeqs(k) ==
    {es \in [1..k -> Entries] : \A i, j \in 1..k : es[i].name = es[j].name => i = j}

PackedEntries(es) == Concat([i \in 1..Len(es) |-> TreeEntry_pack(es[i])])

Objects ==
    {CObj("blob", p, <<>>, 0, <<>>, 0, NoCommit) : p \in Payloads}
    \cup {CObj("tree", <<>>, es, 0, <<>>, 0, NoCommit) : es \in UNION {EntrySeqs(k) : k \in 0..MaxEntries}}
    \cup {CObj("commit", <<>>, <<>>, 0, <<>>, 0,
               [tree_hash |-> BogusHash, parents |-> <<BogusHash>>, commit_message |-> m,
                secs |-> t]) : m \in {<<>>, B_msg}, t \in Clock}

\* Sizes a tree header may declare, around the length b of the entry section
\* and the length f of its first record.
TreeSizes(b, f) == {n \in {0, 1, f, b - 1, b, b + 1} : n >= 0}
FirstLen(es) == IF es = <<>> THEN 0 ELSE Len(TreeEntry_pack(es[1]))

Raws ==
    {CObj("raw-blob", p, <<>>, n, B_blob, 0, NoCommit) :
        p \in SmallPayloads, n \in 0..(MaxPayloadLen + 1)}
    \cup {CObj("raw-typed", p, <<>>, n, tok, 0, NoCommit) :
            p \in {<<>>, P_x}, n \in {0, 1},
            tok \in {B_commit, B_comit, B_blob \o <<115>>, <<116, 97, 103>>, <<>>, <<255>>}}
    \cup UNION {{CObj("raw-tree", p, es, n, B_tree, d, NoCommit) :
                    p \in {<<>>, P_x}, d \in {0, 1, ShaLen + 1},
                    n \in TreeSizes(Len(PackedEntries(es)), FirstLen(es))} :
                es \in UNION {EntrySeqs(k) : k \in 0..(MaxEntries - 1)}}
    \cup {CObj("raw-bytes", p, <<>>, 0, <<>>, 0, NoCommit) :
            p \in {<<>>, B_blob, B_blob \o <<SP, 49>>, B_tree \o <<SP, 120, NUL>>,
                   B_blob \o <<SP, PLUS, 49, NUL, 120>>, B_blob \o <<SP, 255, NUL>>,
                   B_tree \o <<SP, 53, NUL, 120, SP, 121, NUL>>,
                   B_tree \o <<SP, 53, NUL, 52, 48, SP, 97>>}}

\* The bytes of a raw input: token, space, declared size, NUL, the entry
\* records, the data, less the last `drop` bytes.
RawStream(o) ==
    IF o.kind = "raw-bytes" THEN o.data
    ELSE LET full == o.token \o <<SP>> \o to_string(o.declared) \o <<NUL>>
                     \o PackedEntries(o.entries) \o o.data
         IN SubSeq(full, 1, Len(full) - Min(o.drop, Len(full)))

StoreOff ==
    /\ worktree = {}
    /\ store = [init |-> FALSE, dirs |-> {}, files |-> <<>>]
    /\ last = [cmd |-> "", status |-> "", out |-> <<>>, err |-> "", arg |-> <<>>,
               writes |-> <<>>, trees |-> {}, failedAt |-> <<>>, failedDir |-> <<>>]
    /\ steps = 0
    /\ treeRuns = 0

InitCodec ==
    /\ StoreOff
    /\ cres = NoOutcome
    /\ \/ /\ cpc = "obj"
          /\ cobj \in Objects
          /\ cstream = <<>>
       \/ /\ cpc = "stream"
          /\ cobj \in Raws
          /\ cstream = RawStream(cobj)

Packed(bytes) ==
    /\ cpc = "obj"
    /\ cpc' = "stream"
    /\ cstream' = bytes
    /\ UNCHANGED <<cobj, cres, storeVars>>

PackBlob == cobj.kind = "blob" /\ \E b \in {BlobObject_pack(cobj.data)} : Packed(b)
PackTree == cobj.kind = "tree" /\ \E b \in {TreeObject_pack(cobj.entries)} : Packed(b)
PackCommit == cobj.kind = "commit" /\ \E b \in {CommitObject_pack(cobj.commit)} : Packed(b)

\* read_git_object on the stream, by a build with or without overflow checks.
Parse ==
    /\ cpc = "stream"
    /\ cpc' = "done"
    /\ \E o \in {read_git_object(cstream, checks) : checks \in BOOLEAN} : cres' = o
    /\ UNCHANGED <<cobj, cstream, storeVars>>

NextCodec ==
    \/ PackBlob
    \/ PackTree
    \/ PackCommit
    \/ Parse

SpecCodec == InitCodec /\ [][NextCodec]_vars

\* ------------------------------------------------------------ codec properties

Permuted(es, p) == [i \in 1..Len(es) |-> es[p[i]]]
Ascending(es) ==
    \A i, j \in 1..Len(es) :
        i < j => StrCmp(CanonicalKey(es[i].name, es[i].mode = 40000),
                        CanonicalKey(es[j].name, es[j].mode = 40000)) < 0
TreeStream(es) ==
    B_tree \o <<SP>> \o to_string(Len(PackedEntries(es))) \o <<NUL>> \o PackedEntries(es)

ExampleEntries ==
    <<[mode |-> MODE_FILE, name |-> N_b, sha |-> ShaOf(N_b)],
      [mode |-> MODE_FILE, name |-> N_atxt, sha |-> ShaOf(N_atxt)],
      [mode |-> MODE_DIR, name |-> N_a, sha |-> ShaOf(N_a)]>>

\* C2: TreeObject::pack emits the records of entries with distinct names in
\* ascending byte-wise order of the key (the name, with "/" appended for mode
\* 40000), whatever the insertion order: every permutation packs to the same
\* bytes, and {b, a.txt, directory a} is emitted as a.txt, a, b.
C2_CanonicalOrder ==
    (cobj.kind = "tree" /\ cpc # "obj") =>
        /\ \E p \in Perms(DOMAIN cobj.entries) :
              Ascending(Permuted(cobj.entries, p)) /\ cstream = TreeStream(Permuted(cobj.entries, p))
        /\ \A q \in Perms(DOMAIN cobj.entries) :
              TreeObject_pack(Permuted(cobj.entries, q)) = cstream
        /\ (cpc = "done" /\ \E q \in Perms(DOMAIN ExampleEntries) :
                                cobj.entries = Permuted(ExampleEntries, q)) =>
              cres.status = "ok" /\ Names(cres.entries) = <<N_atxt, N_a, N_b>>

\* {b, a.txt, directory a}, inserted in that order, packed and parsed back.
C2_Witness ==
    /\ cpc = "done"
    /\ cobj.kind = "tree"
    /\ cobj.entries = ExampleEntries
    /\ Names(cres.entries) = <<N_atxt, N_a, N_b>>

\* C5: a blob stream declaring N bytes with M bytes after the NUL yields the
\* Blob of those bytes when M = N and an error, never a Blob, when M # N.
C5_BlobSizeMismatch ==
    (cpc = "done" /\ cobj.kind = "raw-blob") =>
        IF Len(cobj.data) = cobj.declared
        THEN cres = Outcome("ok", "blob", cobj.data, <<>>, "")
        ELSE cres.status = "err" /\ cres.kind # "blob"

\* A stream with more bytes than declared, rejected.
C5_Witness ==
    /\ cpc = "done"
    /\ cobj.kind = "raw-blob"
    /\ Len(cobj.data) > cobj.declared
    /\ cobj.declared > 0
    /\ cres.status = "err"

\* C7: a stream whose type token is "commit", followed by a decimal size and
\* NUL (the output of CommitObject::pack included), fails with
\* "Unimplemented read: commit", not with the unsupported-type error.
C7_CommitUnimplemented ==
    (cpc = "done" /\ (cobj.kind = "commit" \/ (cobj.kind = "raw-typed" /\ cobj.token = B_commit))) =>
        cres.status = "err" /\ cres.err = "Unimplemented read: commit"

\* A tree stream is well formed when the declared size is that of its entry
\* records, nothing follows them and no byte is missing.
WellFormed(o) ==
    o.declared = Len(PackedEntries(o.entries)) /\ o.data = <<>> /\ o.drop = 0

\* C8: read_git_object returns a Tree only when the records occupy exactly
\* the declared size with nothing after them; a declared size that is too
\* small, too large or ends inside a record gives a returned error, never a
\* panic, an underflow of the counter or a partial tree.
C8_TreeExactSize ==
    (cpc = "done" /\ cobj.kind = "raw-tree") =>
        /\ cres.status # "panic"
        /\ cres.status = "ok" => WellFormed(cobj) /\ cres.entries = cobj.entries
        /\ ~WellFormed(cobj) => cres.status = "err"

====
